---- MODULE Spec2Model ----
(***************************************************************************)
(* Model of the run-length encoded vector RleVec<T> (src/src/lib.rs).      *)
(* The table `runs` is the Vec<InternalRun<T>> of the struct; positions    *)
(* and logical indices are 0-based as in the source, TLA+ sequences are    *)
(* 1-based, so runs[p] of the source is rs[p + 1] here.                    *)
(***************************************************************************)
EXTENDS Integers, Sequences, FiniteSets, TLC

\* ---------------------------------------------------------------- bounds
\* Longest logical sequence the operations may build.
MaxLen == 4
\* Number of distinct element values of T.
NumValues == 3
\* Largest n handed to push_n.
MaxPushN == 2
\* Width of usize in bits (scaled down from the target's 64).
USIZE_BITS == 4
MaxRuns == 3

Values == 1 .. NumValues
\* Option::None for an element, and the "no value" of an operation log entry.
None == 0
USIZE_MOD == 2 ^ USIZE_BITS
USIZE_MAX == USIZE_MOD - 1

\* ------------------------------------------------------ plain Vec<T> model
\* Vec::remove(p) and Vec::insert(p, x) of the standard library, 0-based.
VecRemove(s, p) == SubSeq(s, 1, p) \o SubSeq(s, p + 2, Len(s))
VecInsert(s, p, x) == SubSeq(s, 1, p) \o <<x>> \o SubSeq(s, p + 1, Len(s))

\* All sequences over Values of length at most n.
SeqsUpTo(n) == UNION {[1 .. k -> Values] : k \in 0 .. n}

\* ------------------------------------------------------------ run records
InternalRun(value, end) == [end |-> end, value |-> value]
Run(len, value) == [len |-> len, value |-> value]

\* Result of a mutating call: the table it leaves, how it ended, what it returned.
Ok(rs, ret) == [runs |-> rs, panic |-> "none", ret |-> ret]
Fail(rs, why) == [runs |-> rs, panic |-> why, ret |-> None]

\* ------------------------------------------------------------- queries
new == <<>>

\* len that returns the last end offset itself.
len_last_end(rs) == IF rs = <<>> THEN 0 ELSE rs[Len(rs)].end

\* RleVec::len: last.end + 1, or 0 without runs (usize arithmetic).
len(rs) == IF rs = <<>> THEN 0 ELSE (rs[Len(rs)].end + 1) % USIZE_MOD

\* RleVec::is_empty
is_empty(rs) == rs = <<>>

\* RleVec::runs_len
runs_len(rs) == Len(rs)

\* starts without take(runs_len() - 1): the last run's end + 1 is listed too.
starts_no_take(rs) ==
    IF is_empty(rs) THEN <<>>
    ELSE <<0>> \o [k \in 1 .. runs_len(rs) |-> (rs[k].end + 1) % USIZE_MOD]

\* RleVec::starts: 0, then end + 1 of every run but the last.
starts(rs) ==
    IF is_empty(rs) THEN <<>>
    ELSE <<0>> \o [k \in 1 .. runs_len(rs) - 1 |-> (rs[k].end + 1) % USIZE_MOD]

\* RleVec::ends
ends(rs) == [k \in 1 .. Len(rs) |-> rs[k].end]

\* slice::binary_search_by(|run| run.end.cmp(&index)) over rs[lo+1 .. hi]:
\* [found |-> TRUE, at |-> i] for Ok(i), [found |-> FALSE, at |-> i] for Err(i);
\* probes counts the descriptors the comparison closure was called on.
RECURSIVE binary_search(_, _, _, _)
binary_search(rs, index, left, right) ==
    IF left >= right THEN [found |-> FALSE, at |-> left, probes |-> 0]
    ELSE LET mid == left + (right - left) \div 2
             half == IF rs[mid + 1].end < index
                     THEN binary_search(rs, index, mid + 1, right)
                     ELSE binary_search(rs, index, left, mid)
         IN IF rs[mid + 1].end = index THEN [found |-> TRUE, at |-> mid, probes |-> 1]
            ELSE [half EXCEPT !.probes = @ + 1]

\* run_index that takes Err(i) for the run before the insertion point.
run_index_before(rs, index) ==
    LET r == binary_search(rs, index, 0, Len(rs))
    IN IF r.found THEN [panic |-> "none", probes |-> r.probes, p |-> r.at]
       ELSE IF r.at < Len(rs) THEN [panic |-> "none", probes |-> r.probes, p |-> IF r.at > 0 THEN r.at - 1 ELSE 0]
       ELSE [panic |-> "index_oob", probes |-> r.probes, p |-> 0]

\* run_index that clamps an index past the end to the last run instead of panicking.
run_index_clamp(rs, index) ==
    LET r == binary_search(rs, index, 0, Len(rs))
    IN IF r.found \/ r.at < Len(rs) THEN [panic |-> "none", probes |-> r.probes, p |-> r.at]
       ELSE IF rs # <<>> THEN [panic |-> "none", probes |-> r.probes, p |-> Len(rs) - 1]
       ELSE [panic |-> "index_oob", probes |-> r.probes, p |-> 0]

\* run_index that scans the descriptors from the first one.
run_index_linear(rs, index) ==
    LET hit == {k \in 0 .. Len(rs) - 1 : rs[k + 1].end >= index}
        p == CHOOSE k \in hit : \A j \in hit : k <= j
    IN IF hit = {} THEN [panic |-> "index_oob", probes |-> Len(rs), p |-> 0]
       ELSE [panic |-> "none", probes |-> p + 1, p |-> p]

\* RleVec::run_index: position of the run owning `index`, or the out-of-bounds panic.
run_index(rs, index) ==
    LET r == binary_search(rs, index, 0, Len(rs))
    IN IF r.found THEN [panic |-> "none", probes |-> r.probes, p |-> r.at]
       ELSE IF r.at < Len(rs) THEN [panic |-> "none", probes |-> r.probes, p |-> r.at]
       ELSE [panic |-> "index_oob", probes |-> r.probes, p |-> 0]

\* index_info that takes the previous run's end itself for the start.
index_info_start_at_end(rs, index) ==
    LET r == run_index(rs, index)
    IN IF r.panic # "none" THEN [panic |-> r.panic, p |-> 0, start |-> 0, end |-> 0]
       ELSE IF r.p = 0 THEN [panic |-> "none", p |-> 0, start |-> 0, end |-> rs[1].end]
       ELSE [panic |-> "none", p |-> r.p, start |-> rs[r.p].end, end |-> rs[r.p + 1].end]

\* RleVec::index_info: (p, start, end) of the run owning `index`.
index_info(rs, index) ==
    LET r == run_index(rs, index)
    IN IF r.panic # "none" THEN [panic |-> r.panic, p |-> 0, start |-> 0, end |-> 0]
       ELSE IF r.p = 0 THEN [panic |-> "none", p |-> 0, start |-> 0, end |-> rs[1].end]
       ELSE [panic |-> "none", p |-> r.p, start |-> rs[r.p].end + 1, end |-> rs[r.p + 1].end]

\* Index::index: the value of the owning run.
index(rs, i) ==
    LET r == run_index(rs, i)
    IN IF r.panic # "none" THEN Fail(rs, r.panic) ELSE Ok(rs, rs[r.p + 1].value)

\* ------------------------------------------------------------- appending
\* push_n that gives a new run the end of a single push, whatever n is.
push_n_single(rs, n, value, checks) ==
    IF n = 0 THEN Ok(rs, None)
    ELSE IF rs # <<>> /\ rs[Len(rs)].value = value
         THEN Ok([rs EXCEPT ![Len(rs)].end = (@ + n) % USIZE_MOD], None)
    ELSE IF rs # <<>>
         THEN Ok(Append(rs, InternalRun(value, (rs[Len(rs)].end + 1) % USIZE_MOD)), None)
    ELSE Ok(Append(rs, InternalRun(value, n - 1)), None)

\* push_n that returns without extending the last run when the values are equal.
push_n_noextend(rs, n, value, checks) ==
    IF n = 0 THEN Ok(rs, None)
    ELSE IF rs # <<>> /\ rs[Len(rs)].value = value THEN Ok(rs, None)
    ELSE IF rs # <<>>
         THEN Ok(Append(rs, InternalRun(value, (rs[Len(rs)].end + n) % USIZE_MOD)), None)
    ELSE Ok(Append(rs, InternalRun(value, n - 1)), None)

\* push_n that appends a new run even when the last run holds the value.
push_n_always_append(rs, n, value, checks) ==
    IF n = 0 THEN Ok(rs, None)
    ELSE IF rs # <<>>
         THEN Ok(Append(rs, InternalRun(value, (rs[Len(rs)].end + n) % USIZE_MOD)), None)
    ELSE Ok(Append(rs, InternalRun(value, n - 1)), None)

\* push_n without the early return for n == 0.
push_n_no_zero(rs, n, value, checks) ==
    IF rs # <<>> /\ rs[Len(rs)].value = value
    THEN Ok([rs EXCEPT ![Len(rs)].end = (@ + n) % USIZE_MOD], None)
    ELSE IF rs # <<>>
         THEN Ok(Append(rs, InternalRun(value, (rs[Len(rs)].end + n) % USIZE_MOD)), None)
    ELSE Ok(Append(rs, InternalRun(value, (n - 1) % USIZE_MOD)), None)

\* RleVec::push_n. `checks` is the build's overflow-checks setting: an overflowing
\* usize addition panics when it is on and wraps when it is off.
push_n(rs, n, value, checks) ==
    IF n = 0 THEN Ok(rs, None)
    ELSE IF rs # <<>> /\ rs[Len(rs)].value = value
         THEN IF rs[Len(rs)].end + n > USIZE_MAX /\ checks THEN Fail(rs, "overflow")
              ELSE Ok([rs EXCEPT ![Len(rs)].end = (@ + n) % USIZE_MOD], None)
    ELSE IF rs # <<>>
         THEN IF rs[Len(rs)].end + n > USIZE_MAX /\ checks THEN Fail(rs, "overflow")
              ELSE Ok(Append(rs, InternalRun(value, (rs[Len(rs)].end + n) % USIZE_MOD)), None)
    ELSE Ok(Append(rs, InternalRun(value, n - 1)), None)

\* RleVec::push
push(rs, value, checks) == push_n(rs, 1, value, checks)

\* ------------------------------------------------------------- iterators
\* RleVec::iter
iter == [run_index |-> 0, index |-> 0]

\* Iter::next that never moves on to the next run.
Iter_next_same_run(rs, it) ==
    IF is_empty(rs) \/ it.index = len(rs) THEN [it |-> it, item |-> None]
    ELSE [it |-> [run_index |-> it.run_index, index |-> it.index + 1],
          item |-> rs[it.run_index + 1].value]

\* Iter::next: the advanced cursor and the item (None when exhausted).
Iter_next(rs, it) ==
    IF is_empty(rs) \/ it.index = len(rs) THEN [it |-> it, item |-> None]
    ELSE LET value == rs[it.run_index + 1].value
             i == it.index + 1
         IN [it |-> [run_index |-> IF i > rs[it.run_index + 1].end
                                   THEN it.run_index + 1 ELSE it.run_index,
                     index |-> i],
             item |-> value]

\* Iter::nth that keeps the cursor's run_index instead of looking it up.
Iter_nth_keep_run(rs, it, n, checks) ==
    LET sum == it.index + n
        i == IF sum % USIZE_MOD < len(rs) THEN sum % USIZE_MOD ELSE len(rs)
        nx == Iter_next(rs, [run_index |-> IF it.run_index < Len(rs) THEN it.run_index ELSE 0,
                             index |-> i])
    IN [it |-> nx.it, item |-> nx.item, panic |-> "none"]

\* Iter::nth that always points run_index at the last run.
Iter_nth_last_run(rs, it, n, checks) ==
    LET sum == it.index + n
        i == IF sum % USIZE_MOD < len(rs) THEN sum % USIZE_MOD ELSE len(rs)
        nx == Iter_next(rs, [run_index |-> (Len(rs) - 1) % USIZE_MOD, index |-> i])
    IN [it |-> nx.it, item |-> nx.item, panic |-> "none"]

\* Iter::nth: index = min(index + n, len()); run_index = run_index(index), or
\* runs.len() - 1 when index == len(); then next(). Both index + n and
\* runs.len() - 1 are usize arithmetic: with `checks` an overflow panics,
\* without it the result wraps.
Iter_nth(rs, it, n, checks) ==
    LET sum == it.index + n
        i == IF sum % USIZE_MOD < len(rs) THEN sum % USIZE_MOD ELSE len(rs)
    IN IF sum > USIZE_MAX /\ checks
       THEN [it |-> it, item |-> None, panic |-> "overflow"]
       ELSE IF i < len(rs)
       THEN LET nx == Iter_next(rs, [run_index |-> run_index(rs, i).p, index |-> i])
            IN [it |-> nx.it, item |-> nx.item, panic |-> "none"]
       ELSE IF Len(rs) = 0 /\ checks
       THEN [it |-> [it EXCEPT !.index = i], item |-> None, panic |-> "overflow"]
       ELSE LET nx == Iter_next(rs, [run_index |-> (Len(rs) - 1) % USIZE_MOD, index |-> i])
            IN [it |-> nx.it, item |-> nx.item, panic |-> "none"]

\* Iterator::collect over the value iterator.
RECURSIVE Iter_collect(_, _)
Iter_collect(rs, it) ==
    LET r == Iter_next(rs, it)
    IN IF r.item = None THEN <<>> ELSE <<r.item>> \o Iter_collect(rs, r.it)

\* RleVec::to_vec
to_vec(rs) == Iter_collect(rs, iter)

\* RleVec::runs
runs_iter == [index |-> 0, last_end |-> 0]

\* Runs::next that remembers the run's end instead of the next run's start.
Runs_next_last_end(rs, it) ==
    IF it.index < Len(rs)
    THEN LET end == rs[it.index + 1].end
         IN [it |-> [index |-> it.index + 1, last_end |-> end],
             item |-> Run(end - it.last_end + 1, rs[it.index + 1].value),
             some |-> TRUE]
    ELSE [it |-> it, item |-> Run(0, None), some |-> FALSE]

\* Runs::next: the advanced cursor and the yielded Run (len 0 marks None).
Runs_next(rs, it) ==
    IF it.index < Len(rs)
    THEN LET end == rs[it.index + 1].end
         IN [it |-> [index |-> it.index + 1, last_end |-> end + 1],
             item |-> Run(end - it.last_end + 1, rs[it.index + 1].value),
             some |-> TRUE]
    ELSE [it |-> it, item |-> Run(0, None), some |-> FALSE]

\* Iterator::collect over the run iterator.
RECURSIVE Runs_collect(_, _)
Runs_collect(rs, it) ==
    LET r == Runs_next(rs, it)
    IN IF r.some THEN <<r.item>> \o Runs_collect(rs, r.it) ELSE <<>>

\* The run iterator's cursor once next() has returned None.
RECURSIVE Runs_exhaust(_, _)
Runs_exhaust(rs, it) ==
    LET r == Runs_next(rs, it)
    IN IF r.some THEN Runs_exhaust(rs, r.it) ELSE it

\* FromIterator<T> for RleVec<T>: one push per item, onto the table built so far.
RECURSIVE from_iter(_, _, _)
from_iter(acc, items, checks) ==
    IF items = <<>> THEN Ok(acc, None)
    ELSE LET r == push(acc, Head(items), checks)
         IN IF r.panic # "none" THEN r ELSE from_iter(r.runs, Tail(items), checks)

\* RleVec::from_slice
from_slice(slice, checks) == from_iter(new, slice, checks)

\* FromIterator<Run<T>> for RleVec<T>: one push_n per run.
RECURSIVE from_iter_runs(_, _, _)
\* from_iter over runs that starts a new descriptor for every run with len > 0.
from_iter_runs_no_merge(acc, items, checks) ==
    IF items = <<>> THEN Ok(acc, None)
    ELSE LET r == push_n_always_append(acc, Head(items).len, Head(items).value, checks)
         IN from_iter_runs(r.runs, Tail(items), checks)

from_iter_runs(acc, items, checks) ==
    IF items = <<>> THEN Ok(acc, None)
    ELSE LET r == push_n(acc, Head(items).len, Head(items).value, checks)
         IN IF r.panic # "none" THEN r ELSE from_iter_runs(r.runs, Tail(items), checks)

\* ------------------------------------------------------------------ set
\* set without the early return for an unchanged value.
set_same_never(rs, p, value) == FALSE

\* RleVec::set, line 447: the run already holds the value.
set_same(rs, p, value) == rs[p + 1].value = value

\* set on a run of size 1 that stops after joining the previous run.
set_size1_join_one(rs, p, value) ==
    IF p > 0 /\ rs[p].value = value
    THEN [VecRemove(rs, p) EXCEPT ![p].end = @ + 1]
    ELSE IF p < Len(rs) - 1 /\ rs[p + 2].value = value
    THEN VecRemove(rs, p)
    ELSE [rs EXCEPT ![p + 1].value = value]

\* RleVec::set, a run of size 1: join the previous run, the next run, or overwrite.
set_size1(rs, p, value) ==
    LET joined == p > 0 /\ rs[p].value = value
        r1 == IF joined THEN [VecRemove(rs, p) EXCEPT ![p].end = @ + 1] ELSE rs
        p1 == IF joined THEN p - 1 ELSE p
    IN IF p1 < Len(r1) - 1 /\ r1[p1 + 2].value = value
       THEN VecRemove(r1, p1)
       ELSE [r1 EXCEPT ![p1 + 1].value = value]

\* set at the start of a run that inserts a new run whatever the previous run holds.
set_at_start_always_insert(rs, p, start, value) ==
    VecInsert(rs, p, InternalRun(value, start))

\* RleVec::set, index == start of a longer run.
set_at_start(rs, p, start, value) ==
    IF p > 0
    THEN IF rs[p].value = value
         THEN [rs EXCEPT ![p].end = @ + 1]
         ELSE VecInsert(rs, p, InternalRun(value, start))
    ELSE VecInsert(rs, 0, InternalRun(value, 0))

\* set at the end of a run that does not shorten the run.
set_at_end_no_shrink(rs, p, end, value) ==
    IF p < Len(rs) - 1 /\ rs[p + 2].value = value
    THEN rs
    ELSE VecInsert(rs, p + 1, InternalRun(value, end))

\* RleVec::set, index == end of a longer run.
set_at_end(rs, p, end, value) ==
    LET r1 == [rs EXCEPT ![p + 1].end = @ - 1]
    IN IF p < Len(r1) - 1 /\ r1[p + 2].value = value
       THEN r1
       ELSE VecInsert(r1, p + 1, InternalRun(value, end))

\* split that gives the tail run the new value instead of the original one.
set_split_tail(rs, p, i, end, value) ==
    LET r1 == [rs EXCEPT ![p + 1].end = i - 1]
        r2 == VecInsert(r1, p + 1, InternalRun(value, i))
    IN VecInsert(r2, p + 2, InternalRun(value, end))

\* RleVec::set, index strictly inside a run: split it in three.
set_split(rs, p, i, end, value) ==
    LET r1 == [rs EXCEPT ![p + 1].end = i - 1]
        v == r1[p + 1].value
        r2 == VecInsert(r1, p + 1, InternalRun(value, i))
    IN VecInsert(r2, p + 2, InternalRun(v, end))

\* RleVec::set
set(rs, i, value) ==
    LET info == index_info(rs, i)
        p == info.p
    IN IF info.panic # "none" THEN Fail(rs, info.panic)
       ELSE IF set_same(rs, p, value) THEN Ok(rs, None)
       ELSE IF info.end - info.start = 0 THEN Ok(set_size1(rs, p, value), None)
       ELSE IF i = info.start THEN Ok(set_at_start(rs, p, info.start, value), None)
       ELSE IF i = info.end THEN Ok(set_at_end(rs, p, info.end, value), None)
       ELSE Ok(set_split(rs, p, i, info.end, value), None)

\* --------------------------------------------------------------- remove
\* RleVec::remove, lines 516-518: run.end -= 1 for the runs from position k on.
\* The usize subtraction 0 - 1 panics with overflow checks and wraps without.
RECURSIVE dec_ends(_, _, _)
dec_ends(rs, k, checks) ==
    IF k >= Len(rs) THEN Ok(rs, None)
    ELSE IF rs[k + 1].end = 0 /\ checks THEN Fail(rs, "overflow")
    ELSE dec_ends([rs EXCEPT ![k + 1].end = (@ - 1) % USIZE_MOD], k + 1, checks)

\* RleVec::remove, lines 522-529: drop the size-1 run at p and fuse its neighbours.
\* runs[p] is read after the removal; with p == runs.len() the Vec index panics.
remove_size1(rs, p) ==
    LET value == rs[p + 1].value
        r1 == VecRemove(rs, p)
    IN IF p > 0 /\ runs_len(r1) > 2
       THEN IF p >= Len(r1) THEN Fail(r1, "slice_oob")
            ELSE IF r1[p].value = r1[p + 1].value
                 THEN Ok(VecRemove([r1 EXCEPT ![p].end = r1[p + 1].end], p), value)
                 ELSE Ok(r1, value)
       ELSE Ok(r1, value)

\* RleVec::remove
remove(rs, i, checks) ==
    LET info == index_info(rs, i)
        p == info.p
        dec == dec_ends(rs, p, checks)
    IN IF info.panic # "none" THEN Fail(rs, info.panic)
       ELSE IF dec.panic # "none" THEN dec
       ELSE IF info.end - info.start = 0 THEN remove_size1(dec.runs, p)
       ELSE Ok(dec.runs, dec.runs[p + 1].value)

\* --------------------------------------------------------------- insert
\* RleVec::insert, lines 558-560: run.end += 1 for the runs from position k on.
RECURSIVE inc_ends(_, _, _)
inc_ends(rs, k, checks) ==
    IF k >= Len(rs) THEN Ok(rs, None)
    ELSE IF rs[k + 1].end = USIZE_MAX /\ checks THEN Fail(rs, "overflow")
    ELSE inc_ends([rs EXCEPT ![k + 1].end = (@ + 1) % USIZE_MOD], k + 1, checks)

\* insert at the start of a run that adds a descriptor whatever the previous run holds.
insert_at_start_always_insert(rs, p, i, value) ==
    VecInsert(rs, p, InternalRun(value, i))

\* RleVec::insert, index == start of run p (ends already shifted).
insert_at_start(rs, p, i, value) ==
    IF p > 0 /\ rs[p].value = value
    THEN [rs EXCEPT ![p].end = @ + 1]
    ELSE VecInsert(rs, p, InternalRun(value, i))

\* split that leaves the tail run at the unshifted end.
insert_split_unshifted(rs, p, i, end, value) ==
    LET r1 == [rs EXCEPT ![p + 1].end = i - 1]
        r2 == VecInsert(r1, p + 1, InternalRun(value, i))
        v == r2[p + 1].value
    IN VecInsert(r2, p + 2, InternalRun(v, end))

\* RleVec::insert, index after the start of run p: split the run.
insert_split(rs, p, i, end, value) ==
    LET r1 == [rs EXCEPT ![p + 1].end = i - 1]
        r2 == VecInsert(r1, p + 1, InternalRun(value, i))
        v == r2[p + 1].value
    IN VecInsert(r2, p + 2, InternalRun(v, (end + 1) % USIZE_MOD))

\* insert that shifts the ends before it resolves the index.
insert_shift_first(rs, i, value, checks) ==
    IF i = len(rs) THEN push(rs, value, checks)
    ELSE LET info == index_info(rs, i)
             inc == inc_ends(rs, 0, checks)
         IN IF info.panic # "none" THEN Fail(inc.runs, info.panic)
            ELSE IF inc.runs[info.p + 1].value = value THEN Ok(inc.runs, None)
            ELSE IF i = info.start THEN Ok(insert_at_start(inc.runs, info.p, i, value), None)
            ELSE Ok(insert_split(inc.runs, info.p, i, info.end, value), None)

\* insert that appends a new run at index == len() instead of calling push.
insert_append_run(rs, i, value, checks) ==
    IF i = len(rs) THEN push_n_always_append(rs, 1, value, checks)
    ELSE LET info == index_info(rs, i)
             p == info.p
             inc == inc_ends(rs, p, checks)
         IN IF info.panic # "none" THEN Fail(rs, info.panic)
            ELSE IF inc.panic # "none" THEN inc
            ELSE IF inc.runs[p + 1].value = value THEN Ok(inc.runs, None)
            ELSE IF i = info.start THEN Ok(insert_at_start(inc.runs, p, i, value), None)
            ELSE Ok(insert_split(inc.runs, p, i, info.end, value), None)

\* RleVec::insert
insert(rs, i, value, checks) ==
    IF i = len(rs) THEN push(rs, value, checks)
    ELSE LET info == index_info(rs, i)
             p == info.p
             inc == inc_ends(rs, p, checks)
         IN IF info.panic # "none" THEN Fail(rs, info.panic)
            ELSE IF inc.panic # "none" THEN inc
            ELSE IF inc.runs[p + 1].value = value THEN Ok(inc.runs, None)
            ELSE IF i = info.start THEN Ok(insert_at_start(inc.runs, p, i, value), None)
            ELSE Ok(insert_split(inc.runs, p, i, info.end, value), None)

\* ------------------------------------------------------------------ state
VARIABLES
    runs,             \* RleVec.runs: the run table
    overflow_checks,  \* build setting: usize overflow panics (TRUE) or wraps (FALSE)
    panic,            \* "none", or why the last call panicked (the program stops there)
    op,               \* the last call: name, arguments, returned value
    prev,             \* the run table before the last call
    vec,              \* the same calls replayed on a plain Vec<T>
    iterator,         \* Iter: the cursor (run_index, index) of the value iterator
    itop              \* the last iterator call, and how many elements were consumed before it

vars == <<runs, overflow_checks, panic, op, prev, vec, iterator, itop>>

\* An iterator call: k elements were consumed before it, `nones` counts the
\* None results in a row (up to 2), only_next says no nth was called so far.
IterCall(name, n, item, k, only_next, nones) ==
    [name |-> name, n |-> n, item |-> item, k |-> k,
     only_next |-> only_next, nones |-> nones]

Call(name, i, value, n, ret) ==
    [name |-> name, index |-> i, value |-> value, n |-> n, ret |-> ret]

Init ==
    /\ runs = new
    /\ overflow_checks \in BOOLEAN
    /\ panic = "none"
    /\ op = Call("new", 0, None, 0, None)
    /\ prev = <<>>
    /\ vec = <<>>
    /\ iterator = iter
    /\ itop = IterCall("none", 0, None, 0, TRUE, 0)

\* One call on the table: r is what the method computed, v the replayed Vec.
Step(name, i, value, n, r, v) ==
    /\ runs' = r.runs
    /\ panic' = r.panic
    /\ op' = Call(name, i, value, n, r.ret)
    /\ prev' = runs
    /\ vec' = v
    /\ UNCHANGED <<overflow_checks, iterator, itop>>

CallPush ==
    /\ panic = "none"
    /\ len(runs) < MaxLen
    /\ \E value \in Values :
          Step("push", 0, value, 1, push(runs, value, overflow_checks), Append(vec, value))

CallPushN ==
    /\ panic = "none"
    /\ \E n \in 0 .. MaxPushN, value \in Values :
          /\ len(runs) + n <= MaxLen
          /\ Step("push_n", 0, value, n, push_n(runs, n, value, overflow_checks),
                  vec \o [k \in 1 .. n |-> value])

\* set with every index up to len(), the first one out of bounds.
CallSet ==
    /\ panic = "none"
    /\ \E i \in 0 .. len(runs), value \in Values :
          Step("set", i, value, 0, set(runs, i, value),
               IF i < Len(vec) THEN [vec EXCEPT ![i + 1] = value] ELSE vec)

\* insert with every index up to len() + 1, the first one out of bounds.
CallInsert ==
    /\ panic = "none"
    /\ len(runs) < MaxLen
    /\ \E i \in 0 .. len(runs) + 1, value \in Values :
          Step("insert", i, value, 0, insert(runs, i, value, overflow_checks),
               IF i <= Len(vec) THEN VecInsert(vec, i, value) ELSE vec)

\* remove with every index up to len(), the first one out of bounds.
CallRemove ==
    /\ panic = "none"
    /\ \E i \in 0 .. len(runs) :
          Step("remove", i, None, 0, remove(runs, i, overflow_checks),
               IF i < Len(vec) THEN VecRemove(vec, i) ELSE vec)

\* rle[i] with every index up to len() + 1, the last two out of bounds.
CallIndex ==
    /\ panic = "none"
    /\ \E i \in 0 .. len(runs) + 1 :
          Step("index", i, None, 0, index(runs, i), vec)

\* let rle = RleVec::from_slice(&v), in place of RleVec::new().
CallFromSlice ==
    /\ panic = "none"
    /\ op.name = "new"
    /\ itop.name = "none"
    /\ \E v \in SeqsUpTo(MaxLen) :
          /\ runs' = from_slice(v, overflow_checks).runs
          /\ panic' = from_slice(v, overflow_checks).panic
          /\ op' = Call("from_slice", 0, None, Len(v), None)
          /\ prev' = <<>>
          /\ vec' = v
          /\ UNCHANGED <<overflow_checks, iterator, itop>>

\* rle = rle.runs().map(|r| Run { value, len }).collect(): the table is rebuilt
\* from its own runs.
CallFromRuns ==
    /\ panic = "none"
    /\ Step("from_runs", 0, None, 0,
            from_iter_runs(new, Runs_collect(runs, runs_iter), overflow_checks), vec)

Next ==
    \/ CallPush
    \/ CallPushN
    \/ CallSet
    \/ CallInsert
    \/ CallRemove
    \/ CallIndex
    \/ CallFromSlice
    \/ CallFromRuns

Spec == Init /\ [][Next]_vars

\* Only push, set, insert and remove, starting from the empty table.
NextCore ==
    \/ CallPush
    \/ CallSet
    \/ CallInsert
    \/ CallRemove

SpecCore == Init /\ [][NextCore]_vars

\* The same, and the rebuild of the table from its own runs.
NextRebuild ==
    \/ NextCore
    \/ CallFromRuns

SpecRebuild == Init /\ [][NextRebuild]_vars

\* The table holds so many elements that one more push_n can pass usize::MAX.
NearFull(rs) == rs # <<>> /\ rs[Len(rs)].end + 1 + MaxPushN >= USIZE_MAX

\* rle.push_n(n, value) on the empty table with n close to usize::MAX.
CallPushNHuge ==
    /\ panic = "none"
    /\ op.name = "new"
    /\ \E n \in USIZE_MAX - MaxPushN .. USIZE_MAX, value \in Values :
          Step("push_n", 0, value, n, push_n(runs, n, value, overflow_checks),
               [k \in 1 .. n |-> value])

\* rle.push(value) on a table that is nearly full.
CallPushNear ==
    /\ panic = "none"
    /\ NearFull(runs)
    /\ \E value \in Values :
          Step("push", 0, value, 1, push(runs, value, overflow_checks), Append(vec, value))

\* rle.push_n(n, value) on a table that is nearly full.
CallPushNNear ==
    /\ panic = "none"
    /\ NearFull(runs)
    /\ \E n \in 0 .. MaxPushN, value \in Values :
          Step("push_n", 0, value, n, push_n(runs, n, value, overflow_checks),
               vec \o [k \in 1 .. n |-> value])

\* Appends only, on a table close to usize::MAX elements.
NextOverflow ==
    \/ CallPushNHuge
    \/ CallPushNear
    \/ CallPushNNear

SpecOverflow == Init /\ [][NextOverflow]_vars

\* ------------------------------------------------------------ sanity
TypeOK ==
    /\ panic \in {"none", "index_oob", "slice_oob", "overflow"}
    /\ overflow_checks \in BOOLEAN
    /\ \A k \in 1 .. Len(runs) : runs[k].end \in 0 .. USIZE_MAX /\ runs[k].value \in Values

\* Elements consumed once the last iterator call returned: an Iterator over
\* Len(vec) elements moves past n + 1 of them in nth(n), one in next().
Consumed ==
    IF itop.name \in {"none", "iter"} THEN 0
    ELSE IF itop.k + itop.n + 1 < Len(vec) THEN itop.k + itop.n + 1 ELSE Len(vec)

Nones(item) == IF item # None THEN 0 ELSE IF itop.nones < 2 THEN itop.nones + 1 ELSE 2

\* let mut it = rle.iter(): a fresh value iterator; the table is borrowed, so
\* only iterator calls follow.
CallIter ==
    /\ panic = "none"
    /\ iterator' = iter
    /\ itop' = IterCall("iter", 0, None, 0, TRUE, 0)
    /\ UNCHANGED <<runs, overflow_checks, panic, op, prev, vec>>

\* it.next()
IterNext ==
    /\ panic = "none"
    /\ itop.name # "none"
    /\ LET r == Iter_next(runs, iterator)
       IN /\ iterator' = r.it
          /\ itop' = IterCall("next", 0, r.item, Consumed, itop.only_next, Nones(r.item))
    /\ UNCHANGED <<runs, overflow_checks, panic, op, prev, vec>>

\* it.nth(n)
IterNth ==
    /\ panic = "none"
    /\ itop.name # "none"
    /\ \E n \in (0 .. MaxLen) \cup {USIZE_MAX} :
          LET r == Iter_nth(runs, iterator, n, overflow_checks)
          IN /\ iterator' = r.it
             /\ panic' = r.panic
             /\ itop' = IterCall("nth", n, r.item, Consumed, FALSE, Nones(r.item))
    /\ UNCHANGED <<runs, overflow_checks, op, prev, vec>>

\* Sequences of up to MaxRuns Run { len, value } items, len 0 included.
RunSeqs ==
    UNION {[1 .. k -> [len : 0 .. MaxPushN, value : Values]] : k \in 0 .. MaxRuns}

\* The elements a sequence of Run items stands for: len copies of each value.
RECURSIVE Expand(_)
Expand(items) ==
    IF items = <<>> THEN <<>>
    ELSE [k \in 1 .. Head(items).len |-> Head(items).value] \o Expand(Tail(items))

\* let rle: RleVec<_> = items.into_iter().collect(), in place of RleVec::new().
CallFromRunSeq ==
    /\ panic = "none"
    /\ op.name = "new"
    /\ itop.name = "none"
    /\ \E items \in RunSeqs :
          /\ runs' = from_iter_runs(new, items, overflow_checks).runs
          /\ panic' = from_iter_runs(new, items, overflow_checks).panic
          /\ op' = Call("from_run_seq", 0, None, Len(items), None)
          /\ prev' = <<>>
          /\ vec' = Expand(items)
          /\ UNCHANGED <<overflow_checks, iterator, itop>>

\* A table collected from Run items, then rebuilt from its own runs.
NextFromRuns ==
    \/ CallFromRunSeq
    \/ CallFromRuns

SpecFromRuns == Init /\ [][NextFromRuns]_vars

\* A table built by from_slice (or new), then value iterators over it.
NextIter ==
    \/ CallFromSlice
    \/ CallIter
    \/ IterNext
    \/ IterNth

SpecIter == Init /\ [][NextIter]_vars

\* ------------------------------------------------------------ properties
\* The last call was `name`, with an index valid for it (bound = number of valid indices).
InRange(name, bound) == op.name = name /\ op.index < bound

\* C1: after any sequence of push, set, insert and remove calls with in-range
\* indices, starting from the empty table, no two adjacent run descriptors hold
\* equal values.
C1_RunMinimal ==
    panic = "none" => \A k \in 1 .. Len(runs) - 1 : runs[k].value # runs[k + 1].value

\* C2: remove(index) with index < len() returns the value that was at logical
\* position index, and afterwards to_vec() is the previous sequence with exactly
\* that element deleted.
C2_RemoveMatchesVec ==
    InRange("remove", len(prev)) =>
        /\ panic = "none"
        /\ op.ret = to_vec(prev)[op.index + 1]
        /\ to_vec(runs) = VecRemove(to_vec(prev), op.index)

\* C3: insert(index, value) with index <= len() leaves the logical sequence equal
\* to Vec::insert on the previous sequence, so len() grows by exactly 1.
C3_InsertMatchesVec ==
    InRange("insert", len(prev) + 1) =>
        /\ panic = "none"
        /\ to_vec(runs) = VecInsert(to_vec(prev), op.index, op.value)
        /\ len(runs) = len(prev) + 1

C3_Witness ==
    /\ InRange("insert", len(prev))
    /\ panic = "none"
    /\ op.index > 0
    /\ runs_len(runs) = runs_len(prev) + 2

\* C4: after set(index, value) with index < len() the element at index equals
\* value, every other logical position holds its previous value, and len() is
\* unchanged.
C4_SetMatchesVec ==
    InRange("set", len(prev)) =>
        /\ panic = "none"
        /\ len(runs) = len(prev)
        /\ to_vec(runs)[op.index + 1] = op.value
        /\ \A j \in 1 .. len(prev) : j # op.index + 1 => to_vec(runs)[j] = to_vec(prev)[j]

C4_Witness ==
    /\ InRange("set", len(prev))
    /\ panic = "none"
    /\ runs_len(runs) = runs_len(prev) - 2

\* C5: after every sequence of push, push_n, set, insert and remove calls that
\* returned, len() equals the length of the plain sequence obtained by replaying
\* the same calls.
C5_LenMatchesReplay ==
    panic = "none" => len(runs) = Len(vec)

C5_Witness ==
    /\ panic = "none"
    /\ op.name = "remove"
    /\ prev # <<>>
    /\ Len(vec) = MaxLen - 1
    /\ runs_len(runs) < runs_len(prev)

\* C6: insert(i, x) followed at once by remove(i) returns x and restores the prior
\* table: the same value at every logical position and the same run count as
\* before the insert.
C6_InsertRemoveInverse ==
    [][(op.name = "insert" /\ panic = "none" /\ op'.name = "remove" /\ op'.index = op.index) =>
           /\ panic' = "none"
           /\ op'.ret = op.value
           /\ to_vec(runs') = to_vec(prev)
           /\ runs_len(runs') = runs_len(prev)]_vars

\* C7: for every reachable table and every i < len(), index(i) equals element i
\* of to_vec().
C7_IndexAgreesWithToVec ==
    InRange("index", len(runs)) =>
        /\ panic = "none"
        /\ op.ret = to_vec(runs)[op.index + 1]

C7_Witness ==
    /\ InRange("index", len(runs))
    /\ op.index > 0
    /\ runs_len(runs) >= 3
    /\ op.ret = runs[2].value

\* C8: to_vec() of the table built from a sequence v by from_slice / collect
\* returns v unchanged.
C8_FromSliceRoundTrip ==
    op.name = "from_slice" => panic = "none" /\ to_vec(runs) = vec

C8_Witness ==
    /\ op.name = "from_slice"
    /\ Len(vec) = MaxLen
    /\ runs_len(runs) = 2

\* C9: rebuilding a reachable table from the (value, len) pairs of its runs()
\* iterator yields a table with the same run descriptors as the original.
C9_RunsRoundTrip ==
    (op.name = "from_runs" /\ panic = "none") => runs = prev

\* C10: set(i, index(i)) with i < len() leaves the table unchanged: the same run
\* descriptors, hence the same len() and runs_len().
C10_SetSameValueNoChange ==
    (InRange("set", len(prev)) /\ op.value = index(prev, op.index).ret) =>
        /\ panic = "none"
        /\ runs = prev
        /\ len(runs) = len(prev)
        /\ runs_len(runs) = runs_len(prev)

C10_Witness ==
    /\ InRange("set", len(prev))
    /\ op.value = index(prev, op.index).ret
    /\ runs_len(prev) >= 2
    /\ panic = "none"

\* C11: index(i) with i >= len() fails with the out-of-bounds panic instead of
\* returning a value; so does index(len()), and every index on an empty table.
C11_IndexOutOfBounds ==
    (op.name = "index" /\ op.index >= len(prev)) =>
        /\ panic = "index_oob"
        /\ op.ret = None

C11_Witness ==
    /\ op.name = "index"
    /\ prev # <<>>
    /\ op.index = len(prev)
    /\ panic = "index_oob"

\* C12: set(i, v) and remove(i) with i >= len(), and insert(i, v) with i > len(),
\* fail with the out-of-bounds panic, and the table is unchanged when they fail.
C12_MutatorsOutOfBounds ==
    (\/ op.name \in {"set", "remove"} /\ op.index >= len(prev)
     \/ op.name = "insert" /\ op.index > len(prev)) =>
        /\ panic = "index_oob"
        /\ runs = prev

C12_Witness ==
    /\ op.name = "insert"
    /\ runs_len(prev) >= 2
    /\ op.index = len(prev) + 1
    /\ panic = "index_oob"

\* Number of elements of a table, as a natural number (not reduced to usize).
ElementCount(rs) == IF rs = <<>> THEN 0 ELSE rs[Len(rs)].end + 1

\* C13: push and push_n panic whenever the append would make the number of
\* elements exceed usize::MAX: no append wraps an end offset, and none returns
\* leaving a table whose element count last.end + 1 is not representable.
C13_AppendOverflowPanics ==
    (op.name \in {"push", "push_n"} /\ ElementCount(prev) + op.n > USIZE_MAX) =>
        panic = "overflow"

\* floor(log2(n)) for n >= 1.
Log2(n) == CHOOSE k \in 0 .. n : 2 ^ k <= n /\ n < 2 ^ (k + 1)

\* The last run of a non-empty table.
Last(rs) == rs[Len(rs)]

\* C14: push(value) and push_n(n, value) with n >= 1 extend the last run's end by
\* n, leaving runs_len() unchanged, when the last run holds value; otherwise they
\* append exactly one descriptor whose end is the previous last end + n (n - 1 on
\* an empty table). No descriptor other than the last is changed.
C14_PushMergesOrAppends ==
    (op.name \in {"push", "push_n"} /\ op.n >= 1) =>
        /\ panic = "none"
        /\ IF prev # <<>> /\ Last(prev).value = op.value
           THEN runs = [prev EXCEPT ![Len(prev)].end = @ + op.n]
           ELSE runs = Append(prev, [value |-> op.value,
                                     end |-> IF prev = <<>> THEN op.n - 1
                                             ELSE Last(prev).end + op.n])

C14_Witness ==
    /\ op.name = "push_n"
    /\ op.n = MaxPushN
    /\ panic = "none"
    /\ runs_len(prev) >= 2
    /\ runs_len(runs) = runs_len(prev)

\* C15: push_n with count 0 leaves the table unchanged, for any value, also a
\* value different from the last run's and on an empty table.
C15_PushZeroNoChange ==
    (op.name = "push_n" /\ op.n = 0) =>
        /\ panic = "none"
        /\ runs = prev
        /\ len(runs) = len(prev)

C15_Witness ==
    /\ op.name = "push_n"
    /\ op.n = 0
    /\ prev # <<>>
    /\ Last(prev).value # op.value
    /\ panic = "none"

\* C16: after any sequence of push, push_n, set, insert and remove calls the end
\* offsets of the run descriptors are strictly increasing.
C16_EndsStrictlyIncreasing ==
    \A k \in 1 .. Len(runs) - 1 : runs[k].end < runs[k + 1].end

C16_Witness ==
    /\ op.name = "set"
    /\ panic = "none"
    /\ runs_len(runs) = runs_len(prev) + 1
    /\ runs_len(runs) >= 3
    /\ op.index > 0

\* C17: in every reachable state the run table is empty iff len() == 0 iff
\* is_empty() iff no element is left, and otherwise len() is the end of the last
\* descriptor plus 1.
C17_EmptyIffLenZero ==
    /\ (runs = <<>>) <=> (len(runs) = 0)
    /\ (runs = <<>>) <=> is_empty(runs)
    /\ panic = "none" => ((runs = <<>>) <=> (vec = <<>>))
    /\ runs # <<>> => len(runs) = Last(runs).end + 1

C17_Witness ==
    /\ op.name = "remove"
    /\ panic = "none"
    /\ prev # <<>>
    /\ runs = <<>>

\* C18: starts() and ends() both have runs_len() entries, with starts[0] = 0,
\* starts[k] = ends[k-1] + 1 for k >= 1 and starts[k] <= ends[k]; both are empty
\* for an empty table.
C18_StartsEnds ==
    LET s == starts(runs)
        e == ends(runs)
    IN /\ Len(s) = runs_len(runs)
       /\ Len(e) = runs_len(runs)
       /\ runs # <<>> => s[1] = 0
       /\ \A k \in 2 .. runs_len(runs) : s[k] = e[k - 1] + 1
       /\ \A k \in 1 .. runs_len(runs) : s[k] <= e[k] /\ e[k] = runs[k].end

C18_Witness ==
    /\ runs_len(runs) >= 3
    /\ starts(runs)[2] < ends(runs)[2]
    /\ op.name = "insert"
    /\ panic = "none"

\* C19: a fresh value iterator driven only by next() yields exactly len() items,
\* the k-th being the element at position k, then None, and None on every later
\* call; on an empty table the first next() is None.
C19_NextYieldsAllThenNone ==
    (itop.name = "next" /\ itop.only_next) =>
        /\ itop.k <= len(runs)
        /\ itop.k < len(runs) => itop.item = vec[itop.k + 1]
        /\ itop.k = len(runs) => itop.item = None
        /\ (itop.item = None) <=> (itop.k = len(runs))

C19_Witness ==
    /\ itop.name = "next"
    /\ itop.only_next
    /\ itop.nones = 2
    /\ runs_len(runs) >= 2
    /\ len(runs) > runs_len(runs)

\* C20: for a value iterator that has consumed k elements (by any mix of next and
\* nth) and n with k + n < len(), nth(n) returns the element at position k + n,
\* equal to index(k + n), and the next() that follows returns the element at
\* position k + n + 1 if it exists.
C20_NthSkipsAhead ==
    [][(itop'.name = "nth" /\ itop'.k + itop'.n < len(runs)) =>
          /\ panic' = "none"
          /\ itop'.item = vec[itop'.k + itop'.n + 1]
          /\ itop'.item = index(runs, itop'.k + itop'.n).ret
          /\ Iter_next(runs, iterator').item =
                IF itop'.k + itop'.n + 1 < len(runs)
                THEN vec[itop'.k + itop'.n + 2] ELSE None]_vars

C20_Witness ==
    /\ itop.name = "nth"
    /\ itop.k >= 1
    /\ itop.n >= 1
    /\ itop.k + itop.n + 1 < len(runs)
    /\ runs_len(runs) >= 3
    /\ itop.item # None
    /\ iterator.run_index # 1

\* C21: for any table, the empty one included, and a value iterator that has
\* consumed k elements, nth(n) with k + n >= len() returns None without failing,
\* and every later next() or nth() returns None too.
C21_NthPastEndIsNone ==
    (itop.name \in {"next", "nth"} /\ itop.k + itop.n >= Len(vec)) =>
        /\ panic = "none"
        /\ itop.item = None

\* Sum of the len fields of a sequence of Run items.
RECURSIVE SumLen(_)
SumLen(items) == IF items = <<>> THEN 0 ELSE Head(items).len + SumLen(Tail(items))

\* C22: the run iterator yields exactly runs_len() items in run order, the k-th
\* with the k-th descriptor's value and len = ends[k] - starts[k] + 1 >= 1, then
\* None on every later call; the yielded lengths sum to len().
C22_RunsYieldsEveryRun ==
    LET items == Runs_collect(runs, runs_iter)
        done == Runs_exhaust(runs, runs_iter)
    IN /\ Len(items) = runs_len(runs)
       /\ \A k \in 1 .. Len(items) :
             /\ items[k].value = runs[k].value
             /\ items[k].len = ends(runs)[k] - starts(runs)[k] + 1
             /\ items[k].len >= 1
       /\ SumLen(items) = len(runs)
       /\ ~Runs_next(runs, done).some
       /\ Runs_next(runs, done).it = done

C22_Witness ==
    /\ op.name = "from_runs"
    /\ panic = "none"
    /\ runs_len(prev) >= 3
    /\ \E k \in 1 .. 3 : Runs_collect(prev, runs_iter)[k].len >= 2

\* C23: a table built from any sequence of Run { value, len } items, adjacent
\* items with equal values and items with len 0 included, is run-minimal and its
\* elements are len copies of each value in order: equal neighbours are merged
\* into one descriptor and zero-length runs contribute nothing.
C23_FromRunsMergesAndSkips ==
    op.name = "from_run_seq" =>
        /\ panic = "none"
        /\ \A k \in 1 .. Len(runs) - 1 :
              runs[k].value # runs[k + 1].value /\ runs[k].end < runs[k + 1].end
        /\ to_vec(runs) = vec
        /\ len(runs) = Len(vec)

C23_Witness ==
    /\ op.name = "from_run_seq"
    /\ op.n = MaxRuns
    /\ runs_len(runs) = 1
    /\ len(runs) = MaxPushN

\* C24: for every table and value, insert(len(), value) leaves exactly the table
\* push(value) leaves (the same run descriptors), also on an empty table where
\* index 0 == len().
C24_InsertAtLenIsPush ==
    (op.name = "insert" /\ op.index = len(prev)) =>
        /\ runs = push(prev, op.value, overflow_checks).runs
        /\ panic = push(prev, op.value, overflow_checks).panic
        /\ panic = "none"

C24_Witness ==
    /\ op.name = "insert"
    /\ op.index = len(prev)
    /\ runs_len(prev) >= 2
    /\ Last(prev).value = op.value
    /\ runs_len(runs) = runs_len(prev)

\* C25: index(i) finds the owning run by binary search over the end offsets: the
\* number of descriptors examined in one lookup is at most log2(runs_len()) + 1
\* and does not grow with the logical length.
C25_IndexProbesLogarithmic ==
    (op.name = "index" /\ op.index < len(prev)) =>
        /\ run_index(prev, op.index).probes >= 1
        /\ run_index(prev, op.index).probes <= Log2(runs_len(prev)) + 1
        /\ runs_len(prev) = 1 => run_index(prev, op.index).probes = 1

C25_Witness ==
    /\ op.name = "index"
    /\ panic = "none"
    /\ runs_len(prev) >= 3
    /\ len(prev) > runs_len(prev)
    /\ run_index(prev, op.index).probes = Log2(runs_len(prev)) + 1

\* The run of table rs that owns index i, in source terms: position p (0-based),
\* whether the run has one element, and the values of the runs next to it.
Owner(rs, i) ==
    LET info == index_info(rs, i)
    IN [p |-> info.p, start |-> info.start, end |-> info.end,
        size1 |-> info.end = info.start,
        value |-> rs[info.p + 1].value,
        before |-> IF info.p > 0 THEN rs[info.p].value ELSE None,
        after |-> IF info.p + 1 < Len(rs) THEN rs[info.p + 2].value ELSE None]

\* C26: remove(index) of a run of length 1 whose previous and next runs both
\* exist and hold equal values fuses the two, so runs_len() decreases by exactly
\* 2 (5 runs become 3, 3 become 1); with different neighbours or a missing one it
\* decreases by exactly 1; for a run of length > 1 it is unchanged.
C26_RemoveRunCount ==
    (op.name = "remove" /\ op.index < len(prev)) =>
        LET o == Owner(prev, op.index)
        IN /\ panic = "none"
           /\ runs_len(runs) =
                 IF ~o.size1 THEN runs_len(prev)
                 ELSE IF o.before # None /\ o.before = o.after THEN runs_len(prev) - 2
                 ELSE runs_len(prev) - 1

\* How many of the runs next to the owner hold value x (0, 1 or 2).
NeighboursWith(o, x) ==
    (IF o.before = x THEN 1 ELSE 0) + (IF o.after = x THEN 1 ELSE 0)

\* The last call was set(index, value) on an in-range index whose element held
\* another value.
SetChanges == InRange("set", len(prev)) /\ Owner(prev, op.index).value # op.value

\* C27: set(index, value) changing the single element of a run of length 1 makes
\* runs_len() decrease by 2 if the previous and the next run both hold value, by 1
\* if exactly one of them does, and leaves it unchanged otherwise (the descriptor's
\* value is overwritten in place); the ends of the surviving runs describe the same
\* logical positions.
C27_SetSize1RunCount ==
    (SetChanges /\ Owner(prev, op.index).size1) =>
        LET o == Owner(prev, op.index)
        IN /\ panic = "none"
           /\ runs_len(runs) = runs_len(prev) - NeighboursWith(o, op.value)
           /\ NeighboursWith(o, op.value) = 0 => runs = [prev EXCEPT ![o.p + 1].value = op.value]
           /\ len(runs) = len(prev)
           /\ to_vec(runs) = [to_vec(prev) EXCEPT ![op.index + 1] = op.value]

C27_Witness ==
    /\ SetChanges
    /\ Owner(prev, op.index).size1
    /\ NeighboursWith(Owner(prev, op.index), op.value) = 2
    /\ runs_len(prev) >= 4
    /\ panic = "none"

\* C28: set(index, value) changing an element of a run of length > 1: strictly
\* inside the run runs_len() grows by exactly 2 (head, new run of length 1, tail
\* with the original value); at the run's first or last position runs_len() is
\* unchanged if the neighbouring run on that side holds value and grows by exactly
\* 1 otherwise.
C28_SetLongRunCount ==
    (SetChanges /\ ~Owner(prev, op.index).size1) =>
        LET o == Owner(prev, op.index)
            i == op.index
        IN /\ panic = "none"
           /\ (o.start < i /\ i < o.end) =>
                 /\ runs_len(runs) = runs_len(prev) + 2
                 /\ runs[o.p + 1] = [value |-> o.value, end |-> i - 1]
                 /\ runs[o.p + 2] = [value |-> op.value, end |-> i]
                 /\ runs[o.p + 3] = [value |-> o.value, end |-> o.end]
           /\ i = o.start =>
                 runs_len(runs) = runs_len(prev) + (IF o.before = op.value THEN 0 ELSE 1)
           /\ i = o.end =>
                 runs_len(runs) = runs_len(prev) + (IF o.after = op.value THEN 0 ELSE 1)

C28_Witness ==
    /\ SetChanges
    /\ ~Owner(prev, op.index).size1
    /\ op.index = Owner(prev, op.index).start
    /\ Owner(prev, op.index).before = op.value
    /\ runs_len(runs) = runs_len(prev)
    /\ panic = "none"

\* C29: for insert(index, value) with index < len(): runs_len() is unchanged when
\* the run owning index holds value, or when index is that run's first position
\* and the previous run holds value; it grows by exactly 1 when index is the run's
\* first position and neither that run nor the previous one holds value; it grows
\* by exactly 2 when index lies after the run's first position (the last position
\* included) and the run holds another value.
C29_InsertRunCount ==
    InRange("insert", len(prev)) =>
        LET o == Owner(prev, op.index)
        IN /\ panic = "none"
           /\ runs_len(runs) - runs_len(prev) =
                 IF o.value = op.value THEN 0
                 ELSE IF op.index = o.start
                      THEN IF o.before = op.value THEN 0 ELSE 1
                 ELSE 2

C29_Witness ==
    /\ InRange("insert", len(prev))
    /\ panic = "none"
    /\ op.index = Owner(prev, op.index).end
    /\ op.index > Owner(prev, op.index).start
    /\ Owner(prev, op.index).after = op.value
    /\ runs_len(runs) = runs_len(prev) + 2

\* C30: for a non-empty table with strictly increasing ends and every i < len(),
\* run_index(i) is the one position p with start[p] <= i <= end[p], the smallest p
\* whose end >= i, and index_info(i) is (p, start[p], end[p]) with start[0] = 0
\* and start[p] = end[p-1] + 1.
C30_RunIndexOwnsIndex ==
    \A i \in 0 .. len(runs) - 1 :
        LET r == run_index(runs, i)
            info == index_info(runs, i)
            start == [k \in 1 .. Len(runs) |-> IF k = 1 THEN 0 ELSE runs[k - 1].end + 1]
        IN /\ r.panic = "none"
           /\ r.p \in 0 .. Len(runs) - 1
           /\ start[r.p + 1] <= i /\ i <= runs[r.p + 1].end
           /\ \A q \in 0 .. Len(runs) - 1 :
                 /\ (start[q + 1] <= i /\ i <= runs[q + 1].end) => q = r.p
                 /\ runs[q + 1].end >= i => q >= r.p
           /\ info.panic = "none"
           /\ info.p = r.p
           /\ info.start = start[r.p + 1]
           /\ info.end = runs[r.p + 1].end

C30_Witness ==
    /\ op.name = "index"
    /\ panic = "none"
    /\ runs_len(runs) >= 3
    /\ run_index(runs, op.index).p = 1
    /\ index_info(runs, op.index).start < op.index
    /\ op.index = index_info(runs, op.index).end

\* C31: remove never subtracts 1 from an end offset that is 0: for every index <
\* len(), index 0 of a first run of length 1 and the only element of a one-element
\* table included, the loop decrementing the ends of runs p.. underflows neither
\* as an overflow panic nor as a wrapped end.
C31_RemoveNoUnderflow ==
    InRange("remove", len(prev)) =>
        /\ panic # "overflow"
        /\ dec_ends(prev, Owner(prev, op.index).p, TRUE).panic = "none"

\* C32: remove never reads the run table out of range: after deleting a run of
\* length 1 at position p, runs[p] is read only when p < runs_len(); removing the
\* last element when it is a run of length 1 and three or more runs remain
\* completes and returns that element.
C32_RemoveNoOutOfRangeRead ==
    InRange("remove", len(prev)) =>
        /\ panic # "slice_oob"
        /\ (op.index = len(prev) - 1 /\ Owner(prev, op.index).size1 /\ runs_len(prev) >= 4) =>
              /\ panic = "none"
              /\ op.ret = Last(prev).value

\* C33: value-iterator cursor invariant: after any sequence of next() and nth()
\* calls on a non-empty table, index <= len() and, whenever index < len(),
\* run_index is the position of the run owning index (run_index(index)), so
\* next() never reads a descriptor out of range.
C33_IterCursorInvariant ==
    (runs # <<>> /\ itop.name # "none") =>
        /\ iterator.index <= len(runs)
        /\ iterator.index < len(runs) =>
              /\ iterator.run_index = run_index(runs, iterator.index).p
              /\ iterator.run_index < Len(runs)
        /\ panic # "slice_oob"

C33_Witness ==
    /\ itop.name = "nth"
    /\ itop.k >= 1
    /\ panic = "none"
    /\ runs_len(runs) >= 3
    /\ iterator.index < len(runs)
    /\ iterator.run_index = 1
    /\ iterator.index = runs[2].end

====
